---- MODULE Spec2Model ----
(***************************************************************************)
(* Graceful shutdown of a node.js net.Server (graceful-shutdown).          *)
(*                                                                         *)
(* The model follows the module with the readiness probes                  *)
(* (src/unnamed/part_000; src/index.js is the same module without them)    *)
(* and the shutdown pipeline of src/lib/server-shutdown.js.                *)
(*                                                                         *)
(* The event loop is single threaded: every action below is one callback   *)
(* run to completion (a signal delivery, a timer, a listener or finalizer  *)
(* callback, a probe request).  Timers are abstract: a pending timer may   *)
(* fire at any later step.                                                 *)
(***************************************************************************)
EXTENDS Integers, Sequences, FiniteSets, TLC

(***************************************************************************)
(* Bounds of the model.                                                    *)
(***************************************************************************)
\* listener handles (net.Server objects) of the process
MaxHandles == 2
\* readiness evaluations started (async.parallel runs of checkReadiness)
MaxEvals == 2
\* probe requests and direct checkReadiness calls
MaxProbes == 3
\* controllers built by calling the constructor directly
MaxControllers == 1
\* the number of calls of terminate() the application makes itself
MaxTerminate == 2

Undefined == "undefined"

Handles == 1..MaxHandles

\* names of the signals delivered to the process
SignalNames == {"SIGTERM", "SIGINT", "SIGHUP"}

\* named functions used as finalizers and as readiness checks
FinalizerNames == {"f1", "f2"}
CheckNames == {"c1", "c2"}

VARIABLES
    \* ---- module constant of part_000 (lines 10-11), fixed when the module is loaded
    environmentGracePeriodMilliseconds,
    \* ---- module state of part_000 (lines 14-17)
    terminatedBy,          \* let terminatedBy
    readinessCheckTasks,   \* let readinessCheckTasks (memoized task list)
    checkingReadiness,     \* let checkingReadiness = false
    isReady,               \* let isReady = false
    \* ---- objects
    marker,                \* marker[h]: the handle has an own property 'shutdown'
    ctls,                  \* the ServerGracefulShutdown instances, in construction order
    handlers,              \* process.on(signal, ...) listeners, in registration order
    \* ---- event loop
    timers,                \* pending setTimeout(..., gracefulShutdown.delay) of the signal handlers
    pipes,                 \* the runs of ServerKiller.gracefulShutdown
    evals,                 \* the async.parallel runs started by checkReadiness
    last,                  \* the latest readiness()/checkReadiness() call or answer
    calls,                 \* number of readiness()/checkReadiness() calls
    \* ---- process
    thrown,                \* the message of the latest error thrown to a caller of the API
    exited,                \* process.exit was called
    exitCode,              \* its argument
    \* ---- observation
    signalsReceived,       \* number of signal deliveries handled
    terminateCalls,        \* number of calls of ServerGracefulShutdown.terminate
    invoked                \* invoked[c]: number of calls of readiness check c

vars == <<environmentGracePeriodMilliseconds, terminatedBy, readinessCheckTasks, checkingReadiness, isReady, marker, ctls,
          handlers, timers, pipes, evals, last, calls, thrown, exited, exitCode,
          signalsReceived, terminateCalls, invoked>>

readyVars == <<readinessCheckTasks, checkingReadiness, isReady, evals, last, calls, invoked>>
killVars == <<timers, pipes, exited, exitCode, signalsReceived, terminateCalls>>

----------------------------------------------------------------------------
(***************************************************************************)
(* lib/signals.js                                                          *)
(***************************************************************************)
\* codeNumber without the fallback for a name that is not in the table
codeNumberNoFallback(signal) ==
    IF signal = "SIGINT" THEN 3
    ELSE IF signal = "SIGTERM" THEN 15
    ELSE 0

\* signals[signal] || 1
codeNumber(signal) ==
    IF signal = "SIGINT" THEN 3
    ELSE IF signal = "SIGTERM" THEN 15
    ELSE 1

----------------------------------------------------------------------------
(***************************************************************************)
(* Options and construction                                                *)
(***************************************************************************)
defaultSignals == <<"SIGTERM">>
defaultGracePeriodMilliseconds == 5 * 1000

\* an optional value: None is the absent (undefined) one
None == <<>>
Some(v) == <<v>>
IsDefined(o) == o # None
Val(o) == o[1]

\* the values of SERVER_SHUTDOWN_GRACE_PERIOD_SECONDS in the environment: unset, "2"
EnvironmentSeconds == {None, Some(2)}

\* process.env.SERVER_SHUTDOWN_GRACE_PERIOD_SECONDS ? parseInt(...) * 1000 : undefined
environmentGracePeriod(seconds) ==
    IF IsDefined(seconds) THEN Some(Val(seconds) * 1000) ELSE None

\* the option objects handed to enable / to the constructor
OptionSets ==
    { [signals |-> None, delay |-> None, gracePeriodMilliseconds |-> None,
       finalizers |-> None, readinessChecks |-> None, killer |-> None],
      [signals |-> Some(<<"SIGINT", "SIGHUP">>), delay |-> Some(200),
       gracePeriodMilliseconds |-> Some(500),
       finalizers |-> Some(<<"f1", "f2">>), readinessChecks |-> Some(<<"c1", "c2">>),
       killer |-> None],
      [signals |-> Some(<<"SIGTERM", "SIGINT">>), delay |-> None,
       gracePeriodMilliseconds |-> None,
       finalizers |-> Some(<<"f1">>), readinessChecks |-> Some(<<"c1">>),
       killer |-> None] }

\* option objects with a killer: the killer and the period of the tests; a killer
\* made with no options; a killer with a period and no gracePeriodMilliseconds option
KillerOptionSets ==
    LET plain == [signals |-> None, delay |-> None, gracePeriodMilliseconds |-> None,
                  finalizers |-> None, readinessChecks |-> None, killer |-> None]
    IN { [plain EXCEPT !.gracePeriodMilliseconds = Some(500),
                       !.killer = Some([gracePeriodMilliseconds |-> Some(500)])],
         [plain EXCEPT !.killer = Some([gracePeriodMilliseconds |-> None])],
         [plain EXCEPT !.killer = Some([gracePeriodMilliseconds |-> Some(100)])] }

\* a duration option that is not a number: the string '1s', written as the pair of
\* its type and its text where a number n is written Some(n)
NotANumber == <<"string", "1s">>

\* typeof o === 'number' for the duration option o
isNumber(o) == Len(o) = 1

\* ensureOptions: the delay the options end up with
ensureDelay(options) ==
    IF ~isNumber(options.delay) THEN 0 ELSE Val(options.delay)

\* ensureOptions: the grace period the options end up with
ensureGracePeriod(options) ==
    IF ~isNumber(options.gracePeriodMilliseconds)
    THEN defaultGracePeriodMilliseconds
    ELSE IF IsDefined(environmentGracePeriodMilliseconds)
    THEN \* environment configuration overwrites options
         Val(environmentGracePeriodMilliseconds)
    ELSE Val(options.gracePeriodMilliseconds)

\* no error thrown yet
NoError == "none"

\* values handed to addFinalizer / addReadinessCheck that are not named functions:
\* a function whose name is '', and the string 'bla'
Unnamed == ""
NonFunction == "string:bla"
InvalidValues == {Unnamed, NonFunction}

\* addFunction without its type tests: every value is accepted
addFunctionNeverThrows(fn) == NoError

\* addFunction's type tests: the error it throws for fn, NoError when it accepts fn
addFunctionThrows(fn) ==
    IF fn = NonFunction
    THEN "provided function has to have \"server\" and \"callback\" arguments"
    ELSE IF fn = Unnamed
    THEN "provided function has to be a named function"
    ELSE NoError

\* addFunction without the test for a duplicate name
addFunctionAlways(fn, collection) == Append(collection, fn)

\* addFunction(fn, collection) for a named function: a duplicate name is ignored
addFunction(fn, collection) ==
    IF \E i \in 1..Len(collection) : collection[i] = fn
    THEN collection
    ELSE Append(collection, fn)

RECURSIVE addAll(_, _)
\* options.finalizers.forEach(this.addFinalizer.bind(this)), likewise the checks
addAll(fns, collection) ==
    IF fns = <<>> THEN collection
    ELSE addAll(Tail(fns), addFunction(Head(fns), collection))

\* new ServerKiller(options): gracePeriodMilliseconds is the option, undefined or not
ServerKiller(options) == [gracePeriodMilliseconds |-> options.gracePeriodMilliseconds]

\* ensureOptions: the killer the options end up with
ensureKiller(options) ==
    IF ~IsDefined(options.killer)
    THEN \* new ServerKiller({gracePeriodMilliseconds: options.gracePeriodMilliseconds})
         ServerKiller([gracePeriodMilliseconds |-> Some(ensureGracePeriod(options))])
    ELSE Val(options.killer)

\* ensureOptions followed by the constructor's assignments
NewController(h, options) ==
    [server |-> h,
     gracePeriodMilliseconds |-> ensureGracePeriod(options),
     delay |-> ensureDelay(options),
     killer |-> ensureKiller(options),
     shutdownFinalizers |->
        addAll(IF IsDefined(options.finalizers) THEN Val(options.finalizers) ELSE <<>>, <<>>),
     readinessChecks |->
        addAll(IF IsDefined(options.readinessChecks) THEN Val(options.readinessChecks)
               ELSE <<>>, <<>>)]

\* the object {} given where an array is expected
NotAnArray == <<"object:{}">>

\* option objects the tests hand to the constructor: a name given twice, an entry
\* that is not a named function, an object in place of the array
ConstructorOptionSets ==
    LET plain == [signals |-> None, delay |-> None, gracePeriodMilliseconds |-> None,
                  finalizers |-> None, readinessChecks |-> None, killer |-> None]
    IN OptionSets \cup
       { [plain EXCEPT !.finalizers = Some(<<"f2", "f1", "f2">>),
                       !.readinessChecks = Some(<<"c2", "c2">>)],
         [plain EXCEPT !.finalizers = Some(<<"f1", NonFunction>>)],
         [plain EXCEPT !.readinessChecks = Some(<<Unnamed>>)],
         [plain EXCEPT !.finalizers = Some(NotAnArray)],
         [plain EXCEPT !.readinessChecks = Some(NotAnArray)] }

\* option objects with a negative duration
NegativeOptionSets ==
    LET plain == [signals |-> None, delay |-> None, gracePeriodMilliseconds |-> None,
                  finalizers |-> None, readinessChecks |-> None, killer |-> None]
    IN { [plain EXCEPT !.delay = Some(-100)],
         [plain EXCEPT !.gracePeriodMilliseconds = Some(-1)] }

\* option objects with a string in place of a duration
NonNumberOptionSets ==
    LET plain == [signals |-> None, delay |-> None, gracePeriodMilliseconds |-> None,
                  finalizers |-> None, readinessChecks |-> None, killer |-> None]
    IN { [plain EXCEPT !.delay = NotANumber],
         [plain EXCEPT !.gracePeriodMilliseconds = NotANumber] }

RECURSIVE forEachThrows(_)
\* fns.forEach(addFunction): the error of the first entry addFunction rejects
forEachThrows(fns) ==
    IF fns = <<>> THEN NoError
    ELSE IF addFunctionThrows(Head(fns)) # NoError THEN addFunctionThrows(Head(fns))
    ELSE forEachThrows(Tail(fns))

\* the error the constructor throws for options, NoError when it returns a controller:
\* ensureOptions tests the two options for arrays, then the entries are added
constructorThrows(options) ==
    LET finalizers == IF IsDefined(options.finalizers) THEN Val(options.finalizers)
                      ELSE <<>>
        checks == IF IsDefined(options.readinessChecks) THEN Val(options.readinessChecks)
                  ELSE <<>>
    IN IF finalizers = NotAnArray
       THEN "finalizers options has to be an array of Functions"
       ELSE IF checks = NotAnArray
       THEN "readinessChecks options has to be an array of Functions"
       ELSE IF forEachThrows(finalizers) # NoError THEN forEachThrows(finalizers)
       ELSE forEachThrows(checks)

\* listFinalizers(): a copy of the finalizer array
listFinalizers(c) == ctls[c].shutdownFinalizers

\* listChecks(): a copy of the readiness check array
listChecks(c) == ctls[c].readinessChecks

\* isTerminated(): terminatedBy !== undefined
isTerminated == terminatedBy # Undefined

\* no call of readiness() or checkReadiness() yet (the fields are described below)
NoProbe ==
    [kind |-> "none", cb |-> "none", status |-> 0, body |-> "", sentOn |-> "",
     wasTerminated |-> FALSE, wasReady |-> FALSE, wasChecking |-> FALSE, ran |-> 0]

Init ==
    /\ environmentGracePeriodMilliseconds \in
          {environmentGracePeriod(seconds) : seconds \in EnvironmentSeconds}
    /\ terminatedBy = Undefined
    /\ readinessCheckTasks = None
    /\ checkingReadiness = FALSE
    /\ isReady = FALSE
    /\ marker = [h \in Handles |-> FALSE]
    /\ ctls = <<>>
    /\ handlers = <<>>
    /\ timers = <<>>
    /\ pipes = <<>>
    /\ evals = <<>>
    /\ last = NoProbe
    /\ calls = 0
    /\ thrown = NoError
    /\ exited = FALSE
    /\ exitCode = 0
    /\ signalsReceived = 0
    /\ terminateCalls = 0
    /\ invoked = [c \in CheckNames |-> 0]

----------------------------------------------------------------------------
(***************************************************************************)
(* enable(server, options): a new controller for the handle, the handle's  *)
(* shutdown() installed by http-shutdown, one process.on listener per      *)
(* entry of options.signals.                                               *)
(***************************************************************************)
\* the listeners options.signals.forEach(...) registers for controller c
NewHandlers(signals, c) == [i \in 1..Len(signals) |-> [signal |-> signals[i], ctl |-> c]]

\* the error of the second enable on a handle
AlreadyEnabled == "server graceful shutdown already enabled"

\* enable without its test of the handle: no handle counts as enabled
alreadyEnabledNever(h) == FALSE

\* serv.hasOwnProperty('shutdown'): http-shutdown has been installed on the handle
alreadyEnabled(h) == marker[h]

\* enable with http-shutdown installed before the controller is constructed: the
\* handle is marked also when the constructor throws
EnableMarksFirst(h, options) ==
    /\ ~exited
    /\ ~alreadyEnabled(h)
    /\ marker' = [marker EXCEPT ![h] = TRUE]
    /\ IF constructorThrows(options) # NoError
       THEN thrown' = constructorThrows(options) /\ UNCHANGED <<ctls, handlers>>
       ELSE /\ ctls' = Append(ctls, NewController(h, options))
            /\ handlers' = handlers \o
                  NewHandlers(IF IsDefined(options.signals) THEN Val(options.signals)
                              ELSE defaultSignals, Len(ctls) + 1)
            /\ UNCHANGED thrown
    /\ UNCHANGED environmentGracePeriodMilliseconds
    /\ UNCHANGED <<terminatedBy, killVars, readyVars>>

\* the error of enable given a third argument that is no controller
NotAnInstance == "provided gracefulShutdown argument is no instance of ServerGracefulShutdown"

Enable(h, options) ==
    /\ ~exited
    /\ ~alreadyEnabled(h)   \* the other case is EnableRejected
    /\ IF constructorThrows(options) # NoError
       THEN \* new ServerGracefulShutdown(server, options) throws: http-shutdown is not
            \* installed and no listener is registered
            thrown' = constructorThrows(options) /\ UNCHANGED <<ctls, marker, handlers>>
       ELSE LET signals == IF IsDefined(options.signals) THEN Val(options.signals)
                           ELSE defaultSignals
            IN /\ ctls' = Append(ctls, NewController(h, options))
               /\ marker' = [marker EXCEPT ![h] = TRUE]
               /\ handlers' = handlers \o NewHandlers(signals, Len(ctls) + 1)
               /\ UNCHANGED thrown
    /\ UNCHANGED environmentGracePeriodMilliseconds
    /\ UNCHANGED <<terminatedBy, killVars, readyVars>>

\* enable(server, options, gracefulShutdown) with a third argument that is no
\* ServerGracefulShutdown (or with a function as the second one): the TypeError is
\* thrown before the handle is looked at
EnableWrongArgument(h, options) ==
    /\ ~exited
    /\ thrown' = NotAnInstance
    /\ UNCHANGED <<environmentGracePeriodMilliseconds, ctls, marker, handlers>>
    /\ UNCHANGED <<terminatedBy, killVars, readyVars>>

\* enable(server, options) on a handle that is enabled already: the error is thrown
\* before the controller is constructed and before any listener is registered
EnableRejected(h, options) ==
    /\ ~exited
    /\ alreadyEnabled(h)
    /\ thrown' = AlreadyEnabled
    /\ UNCHANGED <<environmentGracePeriodMilliseconds, ctls, marker, handlers>>
    /\ UNCHANGED <<terminatedBy, killVars, readyVars>>

\* a controller read as an option object: it has no signals and no finalizers
\* property; delay, gracePeriodMilliseconds, readinessChecks and killer are its own
asOptions(ctl) ==
    [signals |-> None, delay |-> Some(ctl.delay),
     gracePeriodMilliseconds |-> Some(ctl.gracePeriodMilliseconds),
     finalizers |-> None, readinessChecks |-> Some(ctl.readinessChecks),
     killer |-> Some(ctl.killer)]

\* enable(server, gracefulShutdown) with controller c as the second argument: typeof
\* of an instance is 'object', so c is taken for the options and the third parameter
\* is undefined; ensureOptions writes the grace period back into c
EnableController(h, c) ==
    /\ ~exited
    /\ c \in 1..Len(ctls)
    /\ IF alreadyEnabled(h)
       THEN thrown' = AlreadyEnabled /\ UNCHANGED <<ctls, marker, handlers>>
       ELSE /\ ctls' = Append([ctls EXCEPT ![c].gracePeriodMilliseconds =
                                               ensureGracePeriod(asOptions(ctls[c]))],
                              NewController(h, asOptions(ctls[c])))
            /\ marker' = [marker EXCEPT ![h] = TRUE]
            /\ handlers' = handlers \o NewHandlers(defaultSignals, Len(ctls) + 1)
            /\ UNCHANGED thrown
    /\ UNCHANGED environmentGracePeriodMilliseconds
    /\ UNCHANGED <<terminatedBy, killVars, readyVars>>

\* addFinalizer(fn): addFunction throws before it touches the collection
AddFinalizer(c, fn) ==
    /\ ~exited
    /\ IF addFunctionThrows(fn) # NoError
       THEN thrown' = addFunctionThrows(fn) /\ UNCHANGED ctls
       ELSE /\ ctls' = [ctls EXCEPT ![c].shutdownFinalizers = addFunction(fn, @)]
            /\ UNCHANGED thrown
    /\ UNCHANGED environmentGracePeriodMilliseconds
    /\ UNCHANGED <<terminatedBy, marker, handlers, killVars, readyVars>>

\* addReadinessCheck(fn): addFunction throws before it touches the collection
AddReadinessCheck(c, fn) ==
    /\ ~exited
    /\ IF addFunctionThrows(fn) # NoError
       THEN thrown' = addFunctionThrows(fn) /\ UNCHANGED ctls
       ELSE /\ ctls' = [ctls EXCEPT ![c].readinessChecks = addFunction(fn, @)]
            /\ UNCHANGED thrown
    /\ UNCHANGED environmentGracePeriodMilliseconds
    /\ UNCHANGED <<terminatedBy, marker, handlers, killVars, readyVars>>

\* new ServerGracefulShutdown(server, options), as the tests call it
Construct(h, options) ==
    /\ ~exited
    /\ Len(ctls) < MaxControllers
    /\ IF constructorThrows(options) # NoError
       THEN thrown' = constructorThrows(options) /\ UNCHANGED ctls
       ELSE ctls' = Append(ctls, NewController(h, options)) /\ UNCHANGED thrown
    /\ UNCHANGED <<environmentGracePeriodMilliseconds, terminatedBy, marker, handlers,
                   killVars, readyVars>>

----------------------------------------------------------------------------
(***************************************************************************)
(* The signal listeners.  process is an EventEmitter: one delivery of a    *)
(* signal calls every listener registered for it, synchronously and in     *)
(* registration order; process.exit ends the process at once, so the       *)
(* listeners after it do not run.                                          *)
(***************************************************************************)
\* Handler without the isTerminated() test: every delivery records the signal and
\* schedules terminate
HandlerNoForcedExit(hd, st) ==
    [st EXCEPT !.terminatedBy = hd.signal,
               !.timers = Append(@, [ctl |-> hd.ctl, signal |-> hd.signal])]

\* Handler that leaves terminatedBy to the delayed call: the delivery only sets the timer
HandlerMarksLate(hd, st) ==
    IF st.terminatedBy # Undefined
    THEN [st EXCEPT !.exited = TRUE, !.exitCode = 128 + 1]
    ELSE [st EXCEPT !.timers = Append(@, [ctl |-> hd.ctl, signal |-> hd.signal])]

\* Handler that records every signal it handles, also on the forced exit
HandlerOverwrites(hd, st) ==
    IF st.terminatedBy # Undefined
    THEN [st EXCEPT !.terminatedBy = hd.signal, !.exited = TRUE, !.exitCode = 128 + 1]
    ELSE [st EXCEPT !.terminatedBy = hd.signal,
                    !.timers = Append(@, [ctl |-> hd.ctl, signal |-> hd.signal])]

\* the listener body: st holds the module state and the process state it acts on
Handler(hd, st) ==
    IF st.terminatedBy # Undefined
    THEN \* log.info('force exit'); process.exit(128 + 1)
         [st EXCEPT !.exited = TRUE, !.exitCode = 128 + 1]
    ELSE \* terminatedBy = signal; setTimeout(() => gracefulShutdown.terminate(signal, ...), delay)
         [st EXCEPT !.terminatedBy = hd.signal,
                    !.timers = Append(@, [ctl |-> hd.ctl, signal |-> hd.signal])]

RECURSIVE Emit(_, _, _)
\* process.emit(signal) over the listeners hs
Emit(hs, signal, st) ==
    IF hs = <<>> \/ st.exited THEN st
    ELSE Emit(Tail(hs), signal,
              IF Head(hs).signal = signal THEN Handler(Head(hs), st) ELSE st)

\* a signal some listener was installed for is delivered to the process
Signal(signal) ==
    /\ ~exited
    /\ \E i \in 1..Len(handlers) : handlers[i].signal = signal
    /\ LET st == Emit(handlers, signal,
                      [terminatedBy |-> terminatedBy, timers |-> timers,
                       exited |-> exited, exitCode |-> exitCode])
       IN /\ terminatedBy' = st.terminatedBy
          /\ timers' = st.timers
          /\ exited' = st.exited
          /\ exitCode' = st.exitCode
    /\ signalsReceived' = signalsReceived + 1
    /\ UNCHANGED <<environmentGracePeriodMilliseconds, thrown>>
    /\ UNCHANGED <<marker, ctls, handlers, pipes, terminateCalls, readyVars>>

----------------------------------------------------------------------------
(***************************************************************************)
(* ServerKiller.gracefulShutdown: async.waterfall over waitGracePeriod,    *)
(* drainConnections, runFinalizers, destroyServer.  A run is a record of   *)
(* the state of each task:                                                 *)
(*   wait     the period of the grace timer, undefined or not              *)
(*   grace    idle -> waiting -> fired        (setTimeout of the period)   *)
(*   drain    idle -> draining -> closed      (serv.shutdown callback)     *)
(*   fin[i]   idle -> running -> ok | err     (finalizer i of the list)    *)
(*   finPhase idle -> running -> ok | err     (async.parallel's callback)  *)
(*   destroy  idle -> scheduled               (setTimeout of process.exit) *)
(*   onDone   number of calls of the callback given to gracefulShutdown    *)
(***************************************************************************)
\* waitGracePeriod(callback) of killer: the period given to setTimeout, undefined
\* (the timer fires at once) when the killer has none
waitGracePeriod(killer) == killer.gracePeriodMilliseconds

\* gracefulShutdown with the tasks started together instead of one after the other:
\* the drain starts while the grace period is running
gracefulShutdownUnordered(killer, server, signal, finalizers) ==
    [server |-> server, signal |-> signal, finalizers |-> finalizers,
     wait |-> waitGracePeriod(killer), grace |-> "waiting", drain |-> "draining",
     fin |-> [i \in 1..Len(finalizers) |-> "idle"], finPhase |-> "idle",
     destroy |-> "idle", onDone |-> 0]

\* gracefulShutdown(server, signal, finalizers, callback) of killer: the waterfall
\* calls its first task
gracefulShutdown(killer, server, signal, finalizers) ==
    [server |-> server, signal |-> signal, finalizers |-> finalizers,
     wait |-> waitGracePeriod(killer), grace |-> "waiting", drain |-> "idle",
     fin |-> [i \in 1..Len(finalizers) |-> "idle"], finPhase |-> "idle",
     destroy |-> "idle", onDone |-> 0]

\* terminate(signal, callback) of controller c
terminate(c, signal) ==
    /\ pipes' = Append(pipes, gracefulShutdown(ctls[c].killer, ctls[c].server, signal,
                                               listFinalizers(c)))
    /\ terminateCalls' = terminateCalls + 1

\* the application calls terminate(signal, callback) of controller c itself
Terminate(c, signal) ==
    /\ ~exited
    /\ c \in 1..Len(ctls)
    /\ terminateCalls < MaxTerminate
    /\ terminate(c, signal)
    /\ UNCHANGED <<environmentGracePeriodMilliseconds, thrown>>
    /\ UNCHANGED <<terminatedBy, marker, ctls, handlers, timers, exited, exitCode,
                   signalsReceived, readyVars>>

\* the timer set by a signal listener fires: gracefulShutdown.terminate(signal, ...)
DelayTimer(t) ==
    /\ ~exited
    /\ t \in 1..Len(timers)
    /\ terminate(timers[t].ctl, timers[t].signal)
    /\ timers' = [i \in 1..(Len(timers) - 1) |-> IF i < t THEN timers[i] ELSE timers[i + 1]]
    /\ UNCHANGED <<environmentGracePeriodMilliseconds, thrown>>
    /\ UNCHANGED <<terminatedBy, marker, ctls, handlers, exited, exitCode, signalsReceived,
                   readyVars>>

\* async.parallel's final callback after the task states fin: called with the first
\* error as soon as one task reports one, with null once every task has completed
parallel(fin) ==
    IF \E i \in DOMAIN fin : fin[i] = "err" THEN "err"
    ELSE IF \A i \in DOMAIN fin : fin[i] = "ok" THEN "ok"
    ELSE "running"

\* destroyServer(signal, callback): schedules process.exit and calls back; then the
\* waterfall's final callback calls the callback given to gracefulShutdown
destroyServer(pipe) ==
    [pipe EXCEPT !.destroy = "scheduled", !.onDone = @ + 1]

\* the waterfall going on to destroyServer without waiting for async.parallel's result
afterFinalizersEarly(pipe) ==
    IF pipe.finPhase = "err" THEN [pipe EXCEPT !.onDone = @ + 1]
    ELSE destroyServer(pipe)

\* the waterfall after runFinalizers called back with async.parallel's result: an error
\* skips the remaining task and goes to the final callback
afterFinalizers(pipe) ==
    IF pipe.finPhase = "err" THEN [pipe EXCEPT !.onDone = @ + 1]
    ELSE IF pipe.finPhase = "ok" THEN destroyServer(pipe)
    ELSE pipe

\* runFinalizers calling the first finalizer of the list only
runFinalizersFirstOnly(pipe) ==
    LET started == [pipe EXCEPT !.fin = [i \in DOMAIN pipe.fin |->
                                            IF i = 1 THEN "running" ELSE "idle"]]
    IN afterFinalizers([started EXCEPT !.finPhase = parallel(started.fin)])

\* runFinalizers(server, finalizers, callback): async.parallel calls every task
runFinalizers(pipe) ==
    LET started == [pipe EXCEPT !.fin = [i \in DOMAIN pipe.fin |-> "running"]]
    IN afterFinalizers([started EXCEPT !.finPhase = parallel(started.fin)])

\* the grace period timer fires: the waterfall calls drainConnections
GraceTimer(p) ==
    /\ ~exited
    /\ pipes[p].grace = "waiting"
    /\ pipes' = [pipes EXCEPT ![p].grace = "fired", ![p].drain = "draining"]
    /\ UNCHANGED <<environmentGracePeriodMilliseconds, thrown>>
    /\ UNCHANGED <<terminatedBy, marker, ctls, handlers, timers, exited, exitCode,
                   signalsReceived, terminateCalls, readyVars>>

\* serv.shutdown's callback fires (every connection is closed): the waterfall calls
\* runFinalizers
Drained(p) ==
    /\ ~exited
    /\ pipes[p].drain = "draining"
    /\ pipes' = [pipes EXCEPT ![p] = runFinalizers([@ EXCEPT !.drain = "closed"])]
    /\ UNCHANGED <<environmentGracePeriodMilliseconds, thrown>>
    /\ UNCHANGED <<terminatedBy, marker, ctls, handlers, timers, exited, exitCode,
                   signalsReceived, terminateCalls, readyVars>>

\* finalizer i of run p calls back, with an error or without
FinalizerDone(p, i, result) ==
    /\ ~exited
    /\ pipes[p].fin[i] = "running"
    /\ LET pipe == [pipes[p] EXCEPT !.fin[i] = result]
       IN pipes' = [pipes EXCEPT ![p] =
                       IF pipe.finPhase = "running"
                       THEN afterFinalizers([pipe EXCEPT !.finPhase = parallel(pipe.fin)])
                       ELSE pipe]
    /\ UNCHANGED <<environmentGracePeriodMilliseconds, thrown>>
    /\ UNCHANGED <<terminatedBy, marker, ctls, handlers, timers, exited, exitCode,
                   signalsReceived, terminateCalls, readyVars>>

\* the timer of destroyServer fires: process.exit(128 + signals.codeNumber(signal))
ExitTimer(p) ==
    /\ ~exited
    /\ pipes[p].destroy = "scheduled"
    /\ exited' = TRUE
    /\ exitCode' = 128 + codeNumber(pipes[p].signal)
    /\ UNCHANGED <<environmentGracePeriodMilliseconds, thrown>>
    /\ UNCHANGED <<terminatedBy, marker, ctls, handlers, timers, pipes, signalsReceived,
                   terminateCalls, readyVars>>

----------------------------------------------------------------------------
(***************************************************************************)
(* Readiness.  A probe is the record of one call of readiness() or of      *)
(* checkReadiness():                                                       *)
(*   kind    "readiness" | "checkReadiness"                                *)
(*   cb      what the callback given to checkReadiness was called with:    *)
(*           "none" (checkReadiness not called, or not called back yet),   *)
(*           "undefined" (success), "already checking readiness", "error"  *)
(*   status, body, sentOn   the send(status, body) call of readiness() and *)
(*           the object it was made on; status 0: nothing sent             *)
(*   wasTerminated, wasReady, wasChecking   isTerminated(), isReady and    *)
(*           checkingReadiness when the call was made                      *)
(*   ran     the number of readiness checks the call invoked               *)
(* An evaluation is one async.parallel run over the task list:             *)
(*   tasks   the readiness checks it called                                *)
(*   st[i]   running -> ok | err                                           *)
(*   result  running -> ok | err    (async.parallel's final callback)      *)
(*   probe   the call of checkReadiness that started it                    *)
(* evals holds the evaluations with a check that has not called back yet,  *)
(* last the probe of the latest call or answer.                            *)
(***************************************************************************)
\* the module state the readiness code acts on, with the observation of its calls
ReadyState ==
    [terminatedBy |-> terminatedBy, readinessCheckTasks |-> readinessCheckTasks,
     checkingReadiness |-> checkingReadiness, isReady |-> isReady, evals |-> evals,
     last |-> last, invoked |-> invoked]

\* a call of kind made in state rs
NewProbe(kind, rs) ==
    [NoProbe EXCEPT !.kind = kind, !.wasTerminated = (rs.terminatedBy # Undefined),
                    !.wasReady = rs.isReady, !.wasChecking = rs.checkingReadiness]

\* the callback readiness() gives to checkReadiness, called with cb for probe
readinessCallback(probe, cb) ==
    IF cb # "undefined"
    THEN \* response.send(503, 'NOT-READY')
         [probe EXCEPT !.cb = cb, !.status = 503, !.body = "NOT-READY",
                       !.sentOn = "response"]
    ELSE \* request.send(200, 'READY')
         [probe EXCEPT !.cb = cb, !.status = 200, !.body = "READY", !.sentOn = "request"]

\* the callback given to checkReadiness for probe is called with cb
callback(probe, cb) ==
    IF probe.kind = "readiness" THEN readinessCallback(probe, cb)
    ELSE [probe EXCEPT !.cb = cb]

\* checked with the guard kept on a failure: checkingReadiness stays set
checkedKeepsGuard(probe, result, rs) ==
    IF result = "err"
    THEN [rs EXCEPT !.last = callback(probe, "error")]
    ELSE [rs EXCEPT !.checkingReadiness = FALSE, !.isReady = TRUE,
                    !.last = callback(probe, "undefined")]

\* the body of async.parallel's final callback in checkReadiness, for the result
\* of the evaluation started by probe
checked(probe, result, rs) ==
    IF result = "err"
    THEN \* checkingReadiness = false; callback(error)
         [rs EXCEPT !.checkingReadiness = FALSE, !.last = callback(probe, "error")]
    ELSE \* checkingReadiness = false; isReady = true; callback()
         [rs EXCEPT !.checkingReadiness = FALSE, !.isReady = TRUE,
                    !.last = callback(probe, "undefined")]

\* the number of calls of check n that running the task list makes
Runs(tasks, n) == Cardinality({i \in 1..Len(tasks) : tasks[i] = n})

\* checkReadiness(callback) of controller c, called for probe
checkReadiness(c, probe, rs) ==
    IF rs.checkingReadiness
    THEN \* callback(new Error('already checking readiness'))
         [rs EXCEPT !.last = callback(probe, "already checking readiness")]
    ELSE LET tasks == IF IsDefined(rs.readinessCheckTasks)
                      THEN Val(rs.readinessCheckTasks)
                      ELSE listChecks(c)
             started == [probe EXCEPT !.ran = Len(tasks)]
             rs1 == [rs EXCEPT
                 !.checkingReadiness = TRUE,
                 !.readinessCheckTasks = Some(tasks),
                 !.invoked = [n \in CheckNames |-> @[n] + Runs(tasks, n)],
                 !.last = started]
         IN IF tasks = <<>>
            THEN \* async.parallel of no task calls back at once
                 checked(started, "ok", rs1)
            ELSE [rs1 EXCEPT !.evals = Append(@,
                     [tasks |-> tasks, st |-> [i \in 1..Len(tasks) |-> "running"],
                      result |-> "running", probe |-> started])]

\* readiness(request, response) of controller c, called for probe
readiness(c, probe, rs) ==
    IF rs.isReady
    THEN \* only run readiness checks at startup: request.send(200, 'READY')
         [rs EXCEPT !.last = [probe EXCEPT !.status = 200, !.body = "READY",
                                           !.sentOn = "request"]]
    ELSE IF rs.terminatedBy # Undefined
    THEN \* request.send(503, 'NOT-READY')
         [rs EXCEPT !.last = [probe EXCEPT !.status = 503, !.body = "NOT-READY",
                                           !.sentOn = "request"]]
    ELSE checkReadiness(c, probe, rs)

SetReadyState(rs) ==
    /\ readinessCheckTasks' = rs.readinessCheckTasks
    /\ checkingReadiness' = rs.checkingReadiness
    /\ isReady' = rs.isReady
    /\ evals' = rs.evals
    /\ last' = rs.last
    /\ invoked' = rs.invoked

\* a request to the readiness route of controller c
Readiness(c) ==
    /\ ~exited
    /\ c \in 1..Len(ctls)
    /\ calls < MaxProbes
    /\ LET rs == readiness(c, NewProbe("readiness", ReadyState), ReadyState)
       IN Len(rs.evals) <= MaxEvals /\ SetReadyState(rs)
    /\ calls' = calls + 1
    /\ UNCHANGED <<environmentGracePeriodMilliseconds, thrown>>
    /\ UNCHANGED <<terminatedBy, marker, ctls, handlers, killVars>>

\* checkReadiness called by the application itself (the custom handler of the README)
CheckReadiness(c) ==
    /\ ~exited
    /\ c \in 1..Len(ctls)
    /\ calls < MaxProbes
    /\ LET rs == checkReadiness(c, NewProbe("checkReadiness", ReadyState), ReadyState)
       IN Len(rs.evals) <= MaxEvals /\ SetReadyState(rs)
    /\ calls' = calls + 1
    /\ UNCHANGED <<environmentGracePeriodMilliseconds, thrown>>
    /\ UNCHANGED <<terminatedBy, marker, ctls, handlers, killVars>>

\* a liveliness route that looks at the lifecycle state
livelinessWhileRunning(probe) ==
    IF probe.wasTerminated
    THEN [probe EXCEPT !.status = 503, !.body = "NOT-OK", !.sentOn = "response"]
    ELSE [probe EXCEPT !.status = 200, !.body = "OK", !.sentOn = "response"]

\* liveliness(request, response), called for probe: response.send(200, 'OK')
liveliness(probe) ==
    [probe EXCEPT !.status = 200, !.body = "OK", !.sentOn = "response"]

\* a request to the liveliness route of controller c
Liveliness(c) ==
    /\ ~exited
    /\ c \in 1..Len(ctls)
    /\ last' = liveliness(NewProbe("liveliness", ReadyState))
    /\ UNCHANGED <<environmentGracePeriodMilliseconds, thrown>>
    /\ UNCHANGED <<readinessCheckTasks, checkingReadiness, isReady, evals, calls, invoked>>
    /\ UNCHANGED <<terminatedBy, marker, ctls, handlers, killVars>>

\* the evaluations of es with a check still to call back
InFlight(es) == SelectSeq(es, LAMBDA ev : \E i \in DOMAIN ev.st : ev.st[i] = "running")

\* readiness check i of evaluation e calls back, with an error or without
CheckDone(e, i, result) ==
    /\ ~exited
    /\ evals[e].st[i] = "running"
    /\ LET st == [evals[e].st EXCEPT ![i] = result]
           final == evals[e].result = "running" /\ parallel(st) # "running"
           rs == [ReadyState EXCEPT
                     !.evals = InFlight([@ EXCEPT ![e].st = st,
                                                  ![e].result = IF final THEN parallel(st)
                                                                ELSE @])]
       IN IF final
          THEN SetReadyState(checked(evals[e].probe, parallel(st), rs))
          ELSE SetReadyState(rs)
    /\ UNCHANGED <<environmentGracePeriodMilliseconds, thrown>>
    /\ UNCHANGED <<calls, terminatedBy, marker, ctls, handlers, killVars>>

----------------------------------------------------------------------------
\* the shutdown side: installation, signals and the pipeline
ShutdownNext ==
    \/ \E h \in Handles, options \in OptionSets : Enable(h, options)
    \/ \E c \in 1..Len(ctls), fn \in FinalizerNames : AddFinalizer(c, fn)
    \/ \E signal \in SignalNames : Signal(signal)
    \/ \E t \in 1..Len(timers) : DelayTimer(t)
    \/ \E p \in 1..Len(pipes) : GraceTimer(p)
    \/ \E p \in 1..Len(pipes) : Drained(p)
    \/ \E p \in 1..Len(pipes) : \E i \in DOMAIN pipes[p].fin, result \in {"ok", "err"} :
           FinalizerDone(p, i, result)
    \/ \E p \in 1..Len(pipes) : ExitTimer(p)

\* the readiness side: registration, signals and the probes
ReadinessNext ==
    \/ \E c \in 1..Len(ctls), fn \in CheckNames : AddReadinessCheck(c, fn)
    \/ \E signal \in SignalNames : Signal(signal)
    \/ \E c \in 1..Len(ctls) : Readiness(c)
    \/ \E c \in 1..Len(ctls) : CheckReadiness(c)
    \/ \E e \in 1..Len(evals) : \E i \in DOMAIN evals[e].st, result \in {"ok", "err"} :
           CheckDone(e, i, result)

\* the registries: construction and registration, with values that are rejected
RegistryNext ==
    \/ \E h \in Handles, options \in ConstructorOptionSets : Construct(h, options)
    \/ \E c \in 1..Len(ctls), fn \in FinalizerNames \cup InvalidValues : AddFinalizer(c, fn)
    \/ \E c \in 1..Len(ctls), fn \in CheckNames \cup InvalidValues :
           AddReadinessCheck(c, fn)

\* the process from its start, with no probe requested
SpecShutdown == Init /\ [][ShutdownNext]_vars

\* the controllers and their registries
SpecRegistry == Init /\ [][RegistryNext]_vars

\* installation: the calls of enable, accepted and rejected, and the signals
EnableNext ==
    \/ \E h \in Handles, options \in ConstructorOptionSets : Enable(h, options)
    \/ \E h \in Handles, options \in OptionSets : EnableRejected(h, options)
    \/ \E h \in Handles, options \in OptionSets : EnableWrongArgument(h, options)
    \/ \E signal \in SignalNames : Signal(signal)
    \/ \E t \in 1..Len(timers) : DelayTimer(t)

\* the calls of enable of one process
SpecEnable == Init /\ [][EnableNext]_vars

\* the two routes of an enabled process during its life and its shutdown
LivelinessNext ==
    \/ \E c \in 1..Len(ctls) : Liveliness(c)
    \/ \E c \in 1..Len(ctls) : Readiness(c)
    \/ \E e \in 1..Len(evals) : \E i \in DOMAIN evals[e].st, result \in {"ok", "err"} :
           CheckDone(e, i, result)
    \/ \E signal \in SignalNames : Signal(signal)
    \/ \E t \in 1..Len(timers) : DelayTimer(t)
    \/ \E p \in 1..Len(pipes) : GraceTimer(p)
    \/ \E p \in 1..Len(pipes) : Drained(p)
    \/ \E p \in 1..Len(pipes) : \E i \in DOMAIN pipes[p].fin, result \in {"ok", "err"} :
           FinalizerDone(p, i, result)
    \/ \E p \in 1..Len(pipes) : ExitTimer(p)

\* enable given a controller or a killer made by the application
InjectionNext ==
    \/ \E h \in Handles, options \in OptionSets : Construct(h, options)
    \/ \E h \in Handles, c \in 1..Len(ctls) : EnableController(h, c)
    \/ \E h \in Handles, options \in KillerOptionSets : Enable(h, options)
    \/ \E signal \in SignalNames : Signal(signal)
    \/ \E t \in 1..Len(timers) : DelayTimer(t)

\* the shutdown of an enabled process whose application calls terminate() as well
TerminateNext ==
    \/ \E c \in 1..Len(ctls), signal \in SignalNames : Terminate(c, signal)
    \/ \E signal \in SignalNames : Signal(signal)
    \/ \E t \in 1..Len(timers) : DelayTimer(t)
    \/ \E p \in 1..Len(pipes) : GraceTimer(p)
    \/ \E p \in 1..Len(pipes) : Drained(p)
    \/ \E p \in 1..Len(pipes) : \E i \in DOMAIN pipes[p].fin, result \in {"ok", "err"} :
           FinalizerDone(p, i, result)
    \/ \E p \in 1..Len(pipes) : ExitTimer(p)

\* the readiness routes of the controllers of several handles
ControllersNext ==
    \/ \E h \in Handles, options \in OptionSets : Enable(h, options)
    \/ \E c \in 1..Len(ctls) : Readiness(c)
    \/ \E e \in 1..Len(evals) : \E i \in DOMAIN evals[e].st, result \in {"ok", "err"} :
           CheckDone(e, i, result)

\* construction with durations that are no durations, and registration
DurationsNext ==
    \/ \E h \in Handles, options \in NegativeOptionSets : Construct(h, options)
    \/ \E h \in Handles, options \in NonNumberOptionSets : Construct(h, options)
    \/ \E c \in 1..Len(ctls), fn \in FinalizerNames : AddFinalizer(c, fn)
    \/ \E c \in 1..Len(ctls), fn \in CheckNames : AddReadinessCheck(c, fn)

Next ==
    \/ ShutdownNext \/ ReadinessNext \/ RegistryNext \/ EnableNext \/ LivelinessNext
    \/ InjectionNext \/ TerminateNext \/ ControllersNext \/ DurationsNext

Spec == Init /\ [][Next]_vars

\* the controllers made from such durations
SpecDurations == Init /\ [][DurationsNext]_vars

\* the state after enable(server, options) on the first handle
InitEnabled ==
    /\ environmentGracePeriodMilliseconds \in
          {environmentGracePeriod(seconds) : seconds \in EnvironmentSeconds}
    /\ \E options \in OptionSets :
          /\ ctls = <<NewController(1, options)>>
          /\ handlers = NewHandlers(IF IsDefined(options.signals) THEN Val(options.signals)
                                    ELSE defaultSignals, 1)
    /\ marker = [h \in Handles |-> h = 1]
    /\ terminatedBy = Undefined
    /\ readinessCheckTasks = None
    /\ checkingReadiness = FALSE
    /\ isReady = FALSE
    /\ timers = <<>>
    /\ pipes = <<>>
    /\ evals = <<>>
    /\ last = NoProbe
    /\ calls = 0
    /\ thrown = NoError
    /\ exited = FALSE
    /\ exitCode = 0
    /\ signalsReceived = 0
    /\ terminateCalls = 0
    /\ invoked = [c \in CheckNames |-> 0]

\* the enabled process and its probes, up to the delayed call of terminate
SpecReadiness == InitEnabled /\ [][ReadinessNext]_vars

\* the process from its start, with controllers and killers of the application
SpecInjection == Init /\ [][InjectionNext]_vars

\* the enabled process, with signals and calls of terminate(), up to its exit
SpecTerminate == InitEnabled /\ [][TerminateNext]_vars

\* the process from its start, with the probes of every controller
SpecControllers == Init /\ [][ControllersNext]_vars

\* the enabled process with its two routes, up to its exit
SpecLiveliness == InitEnabled /\ [][LivelinessNext]_vars

----------------------------------------------------------------------------
(***************************************************************************)
(* The shutdown pipeline                                                   *)
(***************************************************************************)
Pipes == 1..Len(pipes)

\* C1: if a finalizer reports an error, destroyServer is still executed: in every
\* run whose finalizer phase has reported an error the process exit is scheduled
\* (and the process exits with 128 + codeNumber(signal) when that timer fires).
C1_FinalizerErrorStillDestroys ==
    \A p \in Pipes : pipes[p].finPhase = "err" => pipes[p].destroy = "scheduled"

\* C2: the four phases of a run are strictly ordered: the drain is not started before
\* the grace timer has fired, no finalizer is invoked (and the finalizer phase is not
\* entered) before the listener's shutdown callback has fired, and destroyServer is
\* not entered before the finalizer phase has reported completion, at which point no
\* finalizer is still running.
C2_PhasesInOrder ==
    \A p \in Pipes :
        /\ pipes[p].drain # "idle" => pipes[p].grace = "fired"
        /\ \A i \in DOMAIN pipes[p].fin :
              pipes[p].fin[i] # "idle" => pipes[p].drain = "closed"
        /\ pipes[p].finPhase # "idle" => pipes[p].drain = "closed"
        /\ pipes[p].destroy # "idle" =>
              /\ pipes[p].finPhase \in {"ok", "err"}
              /\ \A i \in DOMAIN pipes[p].fin : pipes[p].fin[i] \in {"ok", "err"}

\* a run with two finalizers went through the four phases
C2_Witness ==
    \E p \in Pipes :
        /\ Len(pipes[p].finalizers) = 2
        /\ pipes[p].destroy = "scheduled"
        /\ pipes[p].onDone = 1

\* C4: the first signal delivered while Running records the signal and starts the
\* graceful sequence (one delayed call of terminate, or its run) and never takes the
\* forced exit: after one delivery the process has exited only through the exit timer
\* of the run, with the signal's code.
C4_FirstSignalIsGraceful ==
    signalsReceived = 1 =>
        /\ terminatedBy # Undefined
        /\ Len(timers) + Len(pipes) = 1
        /\ exited => \E p \in Pipes :
                         /\ pipes[p].destroy = "scheduled"
                         /\ exitCode = 128 + codeNumber(pipes[p].signal)

\* C5: a signal delivered while terminatedBy is set exits the process in the same
\* step, with code 129, whatever the progress of the pipeline, which is left as it
\* is; terminate is called at most once, and not by that delivery.
C5_SecondSignalForcesExit ==
    /\ [](terminateCalls <= 1)
    /\ [][(signalsReceived' = signalsReceived + 1 /\ isTerminated) =>
              /\ exited'
              /\ exitCode' = 129
              /\ terminateCalls' = terminateCalls
              /\ pipes' = pipes /\ timers' = timers]_vars

\* the second signal arrived during the pre-exit delay of a run started by SIGTERM
C5_Witness ==
    /\ signalsReceived = 2
    /\ terminatedBy = "SIGTERM"
    /\ exited /\ exitCode = 129
    /\ \E p \in Pipes : pipes[p].destroy = "scheduled"

\* C6: every finalizer of the snapshot is started, and the finalizer phase completes
\* (the waterfall goes on, onDone can fire) only after every started finalizer has
\* called back, also when one of them reported an error.
C6_NoFailFast ==
    \A p \in Pipes :
        /\ pipes[p].finPhase # "idle" =>
              \A i \in DOMAIN pipes[p].fin : pipes[p].fin[i] # "idle"
        /\ (pipes[p].finPhase \in {"ok", "err"} \/ pipes[p].onDone > 0) =>
              \A i \in DOMAIN pipes[p].fin : pipes[p].fin[i] \in {"ok", "err"}

\* C7: after the first signal terminate is invoked and the process exits with
\* 128 + codeNumber(signal), unless a second signal forces the exit first: a process
\* that has exited after a single delivery has called terminate and has exited with
\* the code of the signal recorded.
C7_ExitsWithSignalCode ==
    (exited /\ signalsReceived = 1) =>
        /\ terminateCalls = 1
        /\ exitCode = 128 + codeNumber(terminatedBy)

\* C8: onDone is invoked exactly once per run whose callbacks have all fired, and
\* only after destroyServer has scheduled the process exit, whatever the finalizers
\* reported.
C8_OnDoneOnceAfterExitScheduled ==
    \A p \in Pipes :
        /\ pipes[p].onDone <= 1
        /\ pipes[p].onDone = 1 => pipes[p].destroy = "scheduled"
        /\ (pipes[p].drain = "closed"
              /\ \A i \in DOMAIN pipes[p].fin : pipes[p].fin[i] \in {"ok", "err"})
             => pipes[p].onDone = 1

----------------------------------------------------------------------------
(***************************************************************************)
(* The readiness probes                                                    *)
(***************************************************************************)
\* C3: a readiness() probe made while terminatedBy is set is answered 503 NOT-READY
\* and runs no readiness check, whatever happened before the signal.
C3_TerminatingProbeNotReady ==
    (last.kind = "readiness" /\ last.wasTerminated) =>
        /\ last.status = 503
        /\ last.body = "NOT-READY"
        /\ last.ran = 0

\* C9: once an evaluation has succeeded (isReady is set) a call of readiness() or of
\* checkReadiness() invokes no readiness check and reports success at once.
C9_NoCheckAfterReady ==
    last.wasReady =>
        /\ last.ran = 0
        /\ last.kind = "readiness" => last.status = 200
        /\ last.kind = "checkReadiness" => last.cb = "undefined"

\* C10: a call made while an evaluation is in flight (checkingReadiness is set) invokes
\* no readiness check and leaves the evaluation and the guard as they are;
\* checkReadiness calls back with 'already checking readiness', and readiness()
\* answers 503 NOT-READY.
C10_SingleFlight ==
    /\ [](last.wasChecking =>
            /\ last.ran = 0
            /\ last.kind = "checkReadiness" => last.cb = "already checking readiness"
            /\ last.kind = "readiness" => (last.status = 503 /\ last.body = "NOT-READY"))
    /\ [][(calls' = calls + 1 /\ checkingReadiness) =>
              /\ evals' = evals
              /\ checkingReadiness'
              /\ invoked' = invoked]_vars

\* the task list an evaluation started now would run
CurrentTasks(c) ==
    IF IsDefined(readinessCheckTasks) THEN Val(readinessCheckTasks) ELSE listChecks(c)

\* C11: an evaluation that ends with a check failure leaves isReady as it was (unset)
\* and releases the guard: checkingReadiness is set exactly while one evaluation has
\* not had its final callback; a call of checkReadiness made with the guard released
\* (from readiness(): in the Running state, isReady unset) runs every task again, and
\* an evaluation that ends with success sets isReady.
C11_FailureIsRecoverable ==
    /\ [](checkingReadiness <=>
            Cardinality({e \in 1..Len(evals) : evals[e].result = "running"}) = 1)
    /\ [][(checkingReadiness /\ ~checkingReadiness' /\ last'.cb = "error")
              => isReady' = isReady]_vars
    /\ [][(checkingReadiness /\ ~checkingReadiness' /\ last'.cb = "undefined")
              => isReady']_vars
    /\ [][(calls' = calls + 1 /\ ~checkingReadiness /\ ~isReady /\ ~isTerminated)
              => \E c \in 1..Len(ctls) :
                    /\ last'.ran = Len(CurrentTasks(c))
                    /\ \A n \in CheckNames :
                          invoked'[n] = invoked[n] + Runs(CurrentTasks(c), n)]_vars

\* check c1 failed in a first evaluation; a second evaluation, started with isReady
\* unset and the guard released, ran it again and set isReady
C11_Witness ==
    /\ isReady
    /\ last.cb = "undefined" /\ last.ran = 1
    /\ ~last.wasReady /\ ~last.wasChecking
    /\ invoked["c1"] = 2

----------------------------------------------------------------------------
(***************************************************************************)
(* The lifecycle state                                                     *)
(***************************************************************************)
\* C12: the listener sets terminatedBy in the step that handles the first signal,
\* before the delayed call: isTerminated() holds in every state from the delivery on,
\* in particular while the timer of the delayed call is pending; the delivery itself
\* never calls terminate, which is called only by that timer when it fires.
C12_TerminatingBeforeDelayedCall ==
    /\ []((signalsReceived > 0 \/ Len(timers) > 0 \/ terminateCalls > 0) => isTerminated)
    /\ [][signalsReceived' = signalsReceived + 1
              => (isTerminated' /\ terminateCalls' = terminateCalls /\ pipes' = pipes)]_vars
    /\ [][terminateCalls' # terminateCalls
              => /\ signalsReceived' = signalsReceived
                 /\ Len(timers) > 0 /\ Len(timers') = Len(timers) - 1
                 /\ isTerminated]_vars

\* a signal was handled by a controller with a delay of 200 ms and the delayed call
\* of terminate is still pending
C12_Witness ==
    /\ signalsReceived = 1
    /\ isTerminated
    /\ terminateCalls = 0
    /\ Len(timers) = 1 /\ ctls[timers[1].ctl].delay = 200

\* C13: terminatedBy is set once: the first delivery sets it to the signal delivered,
\* and no later step (a signal of the same or of another name, a timer, a callback)
\* changes it or unsets it.
C13_TerminatedByIsMonotonic ==
    /\ [][isTerminated => terminatedBy' = terminatedBy]_vars
    /\ [][\A signal \in SignalNames :
              (~isTerminated /\ Signal(signal)) => terminatedBy' = signal]_vars

\* SIGINT was handled first and a second signal forced the exit
C13_Witness ==
    /\ signalsReceived = 2
    /\ terminatedBy = "SIGINT"
    /\ exited /\ exitCode = 129

\* C14: the graceful path (the exit timer of destroyServer, not a signal delivery)
\* exits with 128 + codeNumber(signal) for the signal of the run: 143 for SIGTERM, 129
\* for a name that is not in the signal table.
C14_GracefulExitCode ==
    [][(~exited /\ exited' /\ signalsReceived' = signalsReceived) =>
          \E p \in Pipes :
             /\ pipes[p].destroy = "scheduled"
             /\ pipes[p].signal = terminatedBy
             /\ exitCode' = 128 + codeNumber(pipes[p].signal)
             /\ pipes[p].signal = "SIGTERM" => exitCode' = 143
             /\ pipes[p].signal \notin {"SIGINT", "SIGTERM"} => exitCode' = 129]_vars

\* the run started by SIGHUP, a name that is not in the table, has exited the process
C14_Witness ==
    /\ exited /\ exitCode = 129
    /\ terminatedBy = "SIGHUP"
    /\ signalsReceived = 1 /\ terminateCalls = 1
    /\ \E p \in Pipes : pipes[p].destroy = "scheduled"

----------------------------------------------------------------------------
----------------------------------------------------------------------------
(***************************************************************************)
(* The answers of the readiness route                                      *)
(***************************************************************************)
\* C16: a readiness() probe made in the Running state, with isReady unset and no
\* evaluation in flight, is answered on its response: 200 READY when every check of
\* the evaluation succeeded (also with no check at all), 503 NOT-READY when one failed.
C16_ProbeAnswersOnResponse ==
    (/\ last.kind = "readiness"
     /\ ~last.wasReady /\ ~last.wasTerminated /\ ~last.wasChecking
     /\ last.cb # "none") =>
        /\ last.cb = "undefined" =>
              (last.status = 200 /\ last.body = "READY" /\ last.sentOn = "response")
        /\ last.cb # "undefined" =>
              (last.status = 503 /\ last.body = "NOT-READY" /\ last.sentOn = "response")

\* C17: a readiness check registered before the service is Ready, also after an
\* earlier evaluation has run, is invoked by every later evaluation: a call that starts
\* an evaluation (Running, isReady unset, no evaluation in flight) invokes the checks
\* the controller lists at that moment.
C17_LateCheckIsRun ==
    [][(calls' = calls + 1 /\ ~checkingReadiness /\ ~isReady /\ ~isTerminated)
          => \E c \in 1..Len(ctls) :
                \A n \in CheckNames :
                    invoked'[n] = invoked[n] + Runs(listChecks(c), n)]_vars

----------------------------------------------------------------------------
(***************************************************************************)
(* Options and registries                                                  *)
(***************************************************************************)
\* C18: the grace period of a controller built from options is the environment
\* override (seconds * 1000) whenever the override is present, whether or not the
\* caller gave gracePeriodMilliseconds; otherwise the caller's number; otherwise 5000.
C18_EffectiveGracePeriod ==
    [][\A h \in Handles, options \in OptionSets :
          Enable(h, options) =>
              LET c == ctls'[Len(ctls')]
                  expected ==
                      IF IsDefined(environmentGracePeriodMilliseconds)
                      THEN Val(environmentGracePeriodMilliseconds)
                      ELSE IF IsDefined(options.gracePeriodMilliseconds)
                      THEN Val(options.gracePeriodMilliseconds)
                      ELSE 5000
              IN /\ c.gracePeriodMilliseconds = expected
                 /\ c.killer.gracePeriodMilliseconds = Some(expected)]_vars

\* the entries of a sequence
Range(seq) == {seq[i] : i \in 1..Len(seq)}

\* no name occurs twice in the sequence
NoDuplicates(seq) == \A i, j \in 1..Len(seq) : seq[i] = seq[j] => i = j

RECURSIVE FirstInsertions(_, _)
\* the first k entries of seq without the later occurrences of a name, in order
FirstInsertions(seq, k) ==
    IF k = 0 THEN <<>>
    ELSE IF \E j \in 1..(k - 1) : seq[j] = seq[k] THEN FirstInsertions(seq, k - 1)
    ELSE Append(FirstInsertions(seq, k - 1), seq[k])

\* what adding the named function fn to the registry old must give
Registered(fn, old) == IF fn \in Range(old) THEN old ELSE Append(old, fn)

\* C19: each registry lists the accepted callbacks in first-insertion order with
\* pairwise distinct names; adding a name that is registered leaves the list as it is
\* and raises no error; a new name is appended.  The constructor registers the entries
\* of its options the same way.
C19_RegistriesKeepFirstInsertions ==
    /\ [](\A c \in 1..Len(ctls) :
            /\ NoDuplicates(listFinalizers(c)) /\ NoDuplicates(listChecks(c))
            /\ \A fn \in FinalizerNames \cup CheckNames :
                  /\ addFunctionThrows(fn) = NoError
                  /\ addFunction(fn, listFinalizers(c)) = Registered(fn, listFinalizers(c))
                  /\ addFunction(fn, listChecks(c)) = Registered(fn, listChecks(c)))
    /\ [][\A c \in 1..Len(ctls), fn \in FinalizerNames :
              AddFinalizer(c, fn) =>
                  /\ listFinalizers(c)' = Registered(fn, listFinalizers(c))
                  /\ listChecks(c)' = listChecks(c)
                  /\ thrown' = thrown]_vars
    /\ [][\A c \in 1..Len(ctls), fn \in CheckNames :
              AddReadinessCheck(c, fn) =>
                  /\ listChecks(c)' = Registered(fn, listChecks(c))
                  /\ listFinalizers(c)' = listFinalizers(c)
                  /\ thrown' = thrown]_vars
    /\ [][\A h \in Handles, options \in ConstructorOptionSets :
              (Construct(h, options) /\ constructorThrows(options) = NoError) =>
                  LET c == Len(ctls) + 1
                      finalizers == IF IsDefined(options.finalizers)
                                    THEN Val(options.finalizers) ELSE <<>>
                      checks == IF IsDefined(options.readinessChecks)
                                THEN Val(options.readinessChecks) ELSE <<>>
                  IN /\ Len(ctls') = c
                     /\ ctls'[c].shutdownFinalizers =
                           FirstInsertions(finalizers, Len(finalizers))
                     /\ ctls'[c].readinessChecks = FirstInsertions(checks, Len(checks))]_vars

\* a controller built from options that name f2 and c2 twice, with c1 added later
C19_Witness ==
    \E c \in 1..Len(ctls) :
        /\ listFinalizers(c) = <<"f2", "f1">>
        /\ listChecks(c) = <<"c2", "c1">>
        /\ ctls[c].delay = 0

\* the option object holds an entry that is not a named function, or an object in
\* place of one of the arrays
InvalidOptions(options) ==
    \E list \in {options.finalizers, options.readinessChecks} :
        /\ IsDefined(list)
        /\ (Val(list) = NotAnArray \/ Range(Val(list)) \cap InvalidValues # {})

\* C20: addFinalizer or addReadinessCheck with a value that is not a function, or with
\* an unnamed function, throws and leaves both registries of every controller as they
\* are; the constructor given such an entry, or given an object in place of the
\* finalizers or readinessChecks array, throws and yields no controller.  No registry
\* ever holds such a value.
C20_InvalidCallbackThrows ==
    /\ [](\A c \in 1..Len(ctls) :
            (Range(listFinalizers(c)) \cup Range(listChecks(c))) \cap InvalidValues = {})
    /\ [][\A c \in 1..Len(ctls), fn \in InvalidValues :
              (AddFinalizer(c, fn) \/ AddReadinessCheck(c, fn)) =>
                  /\ ctls' = ctls
                  /\ fn = NonFunction => thrown' =
                        "provided function has to have \"server\" and \"callback\" arguments"
                  /\ fn = Unnamed => thrown' =
                        "provided function has to be a named function"]_vars
    /\ [][\A h \in Handles, options \in ConstructorOptionSets :
              (Construct(h, options) /\ InvalidOptions(options)) =>
                  (ctls' = ctls /\ thrown' # NoError)]_vars
    /\ [][thrown' # thrown => (thrown' # NoError /\ ctls' = ctls)]_vars

\* addFinalizer or addReadinessCheck was called with an unnamed function on a
\* controller that lists f1: the call threw and f1 is still the only finalizer
C20_Witness ==
    /\ thrown = "provided function has to be a named function"
    /\ Len(ctls) = 1
    /\ listFinalizers(1) = <<"f1">>
    /\ listChecks(1) = <<"c1">>

\* C24: the run started by terminate has the handle of the controller and the
\* finalizers the controller lists when terminate is called, so a finalizer added
\* before the delay timer fires is in the run and one added later is not; the list of
\* a run never changes.  The finalizers of the list are all called when the drain has
\* completed and none before; a finalizer that was called is not called again, and
\* the callback of the run is called only after they were called, after every one of
\* them succeeded when the exit is scheduled.
C24_FinalizersOfTheSnapshot ==
    /\ [][\A t \in 1..Len(timers) :
              DelayTimer(t) =>
                  /\ pipes'[Len(pipes')].finalizers = ctls[timers[t].ctl].shutdownFinalizers
                  /\ pipes'[Len(pipes')].server = ctls[timers[t].ctl].server]_vars
    /\ [][\A p \in 1..Len(pipes) :
              /\ pipes'[p].finalizers = pipes[p].finalizers
              /\ pipes'[p].server = pipes[p].server
              /\ \A i \in DOMAIN pipes[p].fin :
                    /\ pipes[p].fin[i] # "idle" => pipes'[p].fin[i] # "idle"
                    /\ pipes[p].fin[i] \in {"ok", "err"} =>
                          pipes'[p].fin[i] = pipes[p].fin[i]]_vars
    /\ [](\A p \in 1..Len(pipes) :
            /\ DOMAIN pipes[p].fin = DOMAIN pipes[p].finalizers
            /\ pipes[p].drain # "closed" => \A i \in DOMAIN pipes[p].fin :
                                                pipes[p].fin[i] = "idle"
            /\ pipes[p].drain = "closed" => \A i \in DOMAIN pipes[p].fin :
                                                pipes[p].fin[i] # "idle"
            /\ pipes[p].onDone > 0 => pipes[p].drain = "closed"
            /\ pipes[p].destroy = "scheduled" => \A i \in DOMAIN pipes[p].fin :
                                                     pipes[p].fin[i] = "ok")

\* a controller enabled without finalizers got f2 before terminate was called and f1
\* after it: the run called f2 alone, f2 succeeded and the callback was called
C24_Witness ==
    /\ Len(ctls) = 1 /\ Len(handlers) = 1
    /\ listFinalizers(1) = <<"f2", "f1">>
    /\ Len(pipes) = 1
    /\ pipes[1].finalizers = <<"f2">>
    /\ pipes[1].fin = <<"ok">>
    /\ pipes[1].onDone = 1

----------------------------------------------------------------------------
(***************************************************************************)
(* Installation                                                            *)
(***************************************************************************)
\* the listeners registered for signal that terminate a controller of handle h
ListenersOf(h, signal) ==
    {i \in 1..Len(handlers) : handlers[i].signal = signal /\ ctls[handlers[i].ctl].server = h}

\* C21: a second enable on a handle on which enable already succeeded throws 'server
\* graceful shutdown already enabled' and registers no listener; no call of enable
\* succeeds on such a handle, so a handle never has two listeners for one signal and
\* one delivery of a signal runs one listener for the handle.
C21_SecondEnableThrows ==
    /\ [](\A h \in Handles, signal \in SignalNames : Cardinality(ListenersOf(h, signal)) <= 1)
    /\ [][\A h \in Handles, options \in OptionSets :
              marker[h] =>
                  /\ ~Enable(h, options)
                  /\ EnableRejected(h, options) =>
                        (thrown' = AlreadyEnabled /\ handlers' = handlers /\ ctls' = ctls)]_vars

\* enable was called again on the enabled first handle and threw; SIGTERM was then
\* delivered once and the one listener of the handle has set its timer
C21_Witness ==
    /\ thrown = AlreadyEnabled
    /\ marker[1] /\ ~marker[2]
    /\ signalsReceived = 1
    /\ terminatedBy = "SIGTERM"
    /\ Len(timers) = 1

\* the option object gives a negative number or a value that is no number as the
\* delay or as the grace period
InvalidDuration(options) ==
    \E duration \in {options.delay, options.gracePeriodMilliseconds} :
        IsDefined(duration) /\ (~isNumber(duration) \/ Val(duration) < 0)

\* C22: the constructor given a gracePeriodMilliseconds or a delay that is negative
\* or not a number throws and yields no controller.
C22_InvalidDurationThrows ==
    /\ [][\A h \in Handles, options \in NegativeOptionSets :
              (Construct(h, options) /\ InvalidDuration(options)) =>
                  (ctls' = ctls /\ thrown' # NoError)]_vars
    /\ [][\A h \in Handles, options \in NonNumberOptionSets :
              (Construct(h, options) /\ InvalidDuration(options)) =>
                  (ctls' = ctls /\ thrown' # NoError)]_vars

----------------------------------------------------------------------------
(***************************************************************************)
(* The liveliness route                                                    *)
(***************************************************************************)
\* C23: as long as the process has not exited, a request to the liveliness route is
\* answered, in every state, and the answer is 200 'OK'; the request changes nothing
\* but the answer: terminatedBy, the readiness state, the evaluations and the
\* shutdown pipeline are as before.
C23_LivelinessAlwaysOk ==
    /\ [](~exited => \A c \in 1..Len(ctls) : ENABLED Liveliness(c))
    /\ [][\A c \in 1..Len(ctls) :
              Liveliness(c) =>
                  /\ last'.kind = "liveliness"
                  /\ last'.status = 200 /\ last'.body = "OK"
                  /\ UNCHANGED <<terminatedBy, readinessCheckTasks, checkingReadiness,
                                 isReady, evals, invoked, ctls, handlers, marker,
                                 killVars>>]_vars
    /\ [](last.kind = "liveliness" => (last.status = 200 /\ last.body = "OK"))

\* the liveliness route answered 200 'OK' after the signal, while the readiness
\* checks of an evaluation were running and the handle was draining
C23_Witness ==
    /\ last.kind = "liveliness" /\ last.status = 200
    /\ last.wasTerminated /\ last.wasChecking /\ ~last.wasReady
    /\ \E p \in 1..Len(pipes) : pipes[p].drain = "draining"

\* C31: a call of enable that throws, because its third argument is no controller,
\* because the handle is enabled already, or because the constructor rejects the
\* options, registers no listener, leaves the marker of every handle, terminatedBy
\* and the readiness state as they are and makes no controller; a handle that is not
\* marked can be enabled with valid options afterwards.
C31_ThrowingEnableChangesNothing ==
    /\ [][\A h \in Handles, options \in ConstructorOptionSets :
              (\/ Enable(h, options) /\ constructorThrows(options) # NoError
               \/ EnableRejected(h, options)
               \/ EnableWrongArgument(h, options)) =>
                  /\ thrown' # NoError
                  /\ UNCHANGED <<ctls, marker, handlers, terminatedBy, killVars, readyVars>>]_vars
    /\ [][thrown' # thrown =>
              UNCHANGED <<ctls, marker, handlers, terminatedBy, killVars, readyVars>>]_vars
    /\ [](\A h \in Handles : (~exited /\ ~marker[h]) =>
            /\ \A options \in OptionSets : ENABLED Enable(h, options)
            /\ \A i \in 1..Len(handlers) : ctls[handlers[i].ctl].server # h)

\* the constructor rejected the options of a call of enable, and both handles are
\* enabled: the handle of the rejected call was enabled by a later call
C31_Witness ==
    /\ thrown = "finalizers options has to be an array of Functions"
    /\ marker[1] /\ marker[2]
    /\ Len(ctls) = 2 /\ Len(handlers) >= 2

\* C25: enable(server, controller) makes no other controller, and the listeners it
\* registers terminate the controller it was given (so that the run a signal starts
\* has the finalizers registered on that controller).
C25_EnableUsesGivenController ==
    [][\A h \in Handles, c \in 1..Len(ctls) :
          (EnableController(h, c) /\ ~alreadyEnabled(h)) =>
              /\ Len(ctls') = Len(ctls)
              /\ handlers' = handlers \o NewHandlers(defaultSignals, c)]_vars

\* C28: whatever signals are delivered and whatever calls of terminate() are made,
\* the process starts one run of the pipeline at most; no finalizer is called by
\* two runs and one run at most has scheduled the exit.
C28_PipelineStartedOnce ==
    /\ Len(pipes) <= 1
    /\ \A p, q \in 1..Len(pipes) :
          (p # q /\ pipes[p].drain = "closed" /\ pipes[q].drain = "closed") =>
              Range(pipes[p].finalizers) \cap Range(pipes[q].finalizers) = {}
    /\ Cardinality({p \in 1..Len(pipes) : pipes[p].destroy = "scheduled"}) <= 1

\* C30: the period of the grace timer of a run is the gracePeriodMilliseconds of the
\* controller whose terminate started it, whether the controller made its killer
\* itself or was given one.
C30_GraceWaitIsEffectivePeriod ==
    [][\A t \in 1..Len(timers) :
          DelayTimer(t) =>
              pipes'[Len(pipes')].wait =
                  Some(ctls[timers[t].ctl].gracePeriodMilliseconds)]_vars

----------------------------------------------------------------------------
(***************************************************************************)
(* The evaluations                                                         *)
(***************************************************************************)
\* C26: the readiness checks of at most one evaluation are running: an evaluation
\* starts only when every check an earlier one called has called back, also when
\* the earlier one has reported its first error already.
C26_OneEvaluationInFlight ==
    /\ [](Len(evals) <= 1)
    /\ [][Len(evals') > Len(evals) => evals = <<>>]_vars

\* C27: when the last check of an evaluation that was started before the first
\* signal calls back after it, isReady is not set and the probe that started the
\* evaluation is not answered 200 READY.
C27_NotReadyOnceTerminating ==
    [][\A e \in 1..Len(evals) : \A i \in DOMAIN evals[e].st, result \in {"ok", "err"} :
          (/\ CheckDone(e, i, result)
           /\ isTerminated /\ ~isReady
           /\ ~evals[e].probe.wasTerminated) =>
              /\ ~isReady'
              /\ ~(last' # last /\ last'.status = 200)]_vars

\* C29: a probe of controller c that starts an evaluation calls the readiness checks
\* registered on c, each once, and no other check, also when the first evaluation
\* of the process was one of another controller.
C29_ChecksOfTheProbedController ==
    [][\A c \in 1..Len(ctls) :
          (Readiness(c) /\ ~isReady /\ ~isTerminated /\ ~checkingReadiness) =>
              \A n \in CheckNames : invoked'[n] = invoked[n] + Runs(listChecks(c), n)]_vars

====
